---------------------------- MODULE Spec2Model ----------------------------
(***************************************************************************)
(* Model of silverpy/api.py: the API class, a client of the Silverpop      *)
(* Engage XML API.  One client instance; every public operation is a call  *)
(* step (build the envelope, validate, _request up to the HTTP POST) and,  *)
(* when a POST was issued, a response step (the rest of the method).       *)
(***************************************************************************)
EXTENDS Integers, Sequences, FiniteSets, TLC

(* ------------------------------ bounds --------------------------------- *)
NumTokens == 2
MaxDictSize == 1

(* --------------------------- Python values ----------------------------- *)
\* None, and "the key is not in kwargs" / "the node is not in the document"
PyNone == "<None>"
Absent == "<absent>"
\* the empty list [] where a value of the program is one (an xpath() call
\* that matched nothing and was kept as the value)
EmptyList == "<[]>"
\* a member a returned tuple does not have
Unset == "<unset>"

\* typed sample values for the parameters whose type or truth the code tests
NoneValue == [t |-> "NoneType", n |-> 0]
AbsentValue == [t |-> "absent", n |-> 0]
DictValues == {[t |-> "dict", n |-> k] : k \in 0..MaxDictSize}
ListValues == {[t |-> "list", n |-> k] : k \in 0..1}
\* a datetime; n is its hour of the day (the date and the minutes are fixed)
DatetimeValue == [t |-> "datetime", n |-> 13]
\* hours of the day the datetimes of the model have: midnight, a morning
\* hour, noon and an afternoon hour
Hours == {0, 9, 12, 13}
DatetimeValues == {[t |-> "datetime", n |-> h] : h \in Hours}
IntValues == {[t |-> "int", n |-> k] : k \in 0..1}

\* bool(v) as the `if v:` tests of the code see it
Truthy(v) ==
    CASE v.t = "NoneType" -> FALSE
      [] v.t = "absent"   -> FALSE
      [] v.t = "datetime" -> TRUE
      [] OTHER            -> v.n # 0

IsDict(v) == v.t = "dict"
IsDatetime(v) == v.t = "datetime"
\* isinstance(text, basestring): every text of the model is a string but None
IsBasestring(x) == x # PyNone
\* truth of a str-or-None argument
TruthyStr(x) == x # PyNone /\ x # ""

(* ------------------------------ strings -------------------------------- *)
\* the text of the SUCCESS node is a sequence of characters, so that
\* str.lower() is computed character by character
UpperChars == <<"A","B","C","D","E","F","G","H","I","J","K","L","M",
                "N","O","P","Q","R","S","T","U","V","W","X","Y","Z">>
LowerChars == <<"a","b","c","d","e","f","g","h","i","j","k","l","m",
                "n","o","p","q","r","s","t","u","v","w","x","y","z">>

LowerChar(c) ==
    IF \E i \in DOMAIN UpperChars : UpperChars[i] = c
    THEN LowerChars[CHOOSE i \in DOMAIN UpperChars : UpperChars[i] = c]
    ELSE c

Lower(s) == [i \in DOMAIN s |-> LowerChar(s[i])]

StrTrue == <<"t","r","u","e">>
StrSuccess == <<"s","u","c","c","e","s","s">>

(* ----------------------------- responses ------------------------------- *)
Tokens == {"tok" \o ToString(i) : i \in 1..NumTokens}

\* texts the SUCCESS node of a response may carry; <<>> is "no text node"
SuccessTexts ==
    { <<>>,
      <<"t","r","u","e">>, <<"T","r","u","e">>,
      <<"s","u","c","c","e","s","s">>, <<"S","U","C","C","E","S","S">>,
      <<"f","a","l","s","e">>, <<"t","r","u","e","!">> }

\* a response: how the transport ended and, for a 2xx answer, the nodes of
\* the document the code looks at.  payload is the node of the operation's
\* result (SESSIONID, RecipientId, CONTACT_LIST_ID, MAILING_ID): Absent, an
\* empty element (PyNone: its .text is None) or an element with a text.
Responses ==
    [ transport : {"ok"},
      success   : SuccessTexts,
      fault     : {Absent, "Unable to remove the recipient."},
      errorid   : {Absent, "140"},
      payload   : {Absent, PyNone} \cup Tokens ]
    \cup
    [ transport : {"network_failure", "http_error"},
      success   : {<<>>},
      fault     : {Absent},
      errorid   : {Absent},
      payload   : {Absent} ]

NoResponse ==
    [transport |-> "none", success |-> <<>>, fault |-> Absent,
     errorid |-> Absent, payload |-> Absent]

\* The list an xpath() call returns is a sequence, <<>> when nothing matches.
\* root.xpath('Body/RESULT/SUCCESS/text()')
XPathSuccessText(resp) ==
    IF resp.success = <<>> THEN <<>> ELSE <<resp.success>>

\* root.xpath('Body/RESULT/<tag>//text()'): the text nodes below the node
XPathPayloadText(resp) ==
    IF resp.payload \in {Absent, PyNone} THEN <<>> ELSE <<resp.payload>>

\* root.xpath('Body/RESULT/SESSIONID'): the element itself
XPathSessionNode(resp) ==
    IF resp.payload = Absent THEN <<>> ELSE <<resp.payload>>

(* ------------------------- _is_successful ------------------------------ *)
\* faulty variant, for sensitivity: the comparison without lower()
IsSuccessTextExact(text) ==
    text = StrTrue \/ text = StrSuccess

\* the comparison of lines 135-138
IsSuccessText(text) ==
    Lower(text) = StrTrue \/ Lower(text) = StrSuccess

\* error = None
NoError == [kind |-> "None", code |-> Unset, message |-> Unset]

\* faulty variant, for sensitivity: the pair with its two members exchanged
ErrorTupleSwapped(resp) ==
    [kind |-> "tuple",
     code |-> resp.fault,
     message |-> IF resp.errorid = Absent THEN EmptyList ELSE resp.errorid]

\* error = (error_code, error_message) of lines 141-157 when the document
\* has a FaultString: error_code is the text of errorid, or the xpath result
\* itself (the empty list) when the document has no errorid node.
ErrorTuple(resp) ==
    [kind |-> "tuple",
     code |-> IF resp.errorid = Absent THEN EmptyList ELSE resp.errorid,
     message |-> resp.fault]

\* faulty variant, for sensitivity: an _is_successful that does not raise on a missing node
_is_successful_lenient(resp) ==
    LET result == XPathSuccessText(resp)
        success == result # <<>> /\ IsSuccessText(result[1])
    IN  IF success
        THEN [raised |-> FALSE, success |-> TRUE, error |-> NoError]
        ELSE [raised |-> FALSE, success |-> FALSE,
              error |-> ErrorTuple(resp)]

\* _is_successful: [raised, success, error]; error is NoError or ErrorTuple
_is_successful(resp) ==
    LET result == XPathSuccessText(resp)
    IN  IF result = <<>>
        THEN [raised |-> TRUE, success |-> FALSE, error |-> NoError]
        ELSE LET success == IsSuccessText(result[1])
             IN  IF success
                 THEN [raised |-> FALSE, success |-> TRUE, error |-> NoError]
                 ELSE IF resp.fault = Absent
                      THEN [raised |-> TRUE, success |-> FALSE,
                            error |-> NoError]
                      ELSE [raised |-> FALSE, success |-> FALSE,
                            error |-> ErrorTuple(resp)]

(* ------------------------- envelope building --------------------------- *)
\* An envelope under construction: the action, the nodes put below the
\* action node so far (path below the action node, text), and the exception
\* a helper raised ("none" while there is none).
_envelope(action) == [action |-> action, nodes |-> <<>>, err |-> "none"]

\* etree.SubElement(parent, tag): an element without text
SubElement(parent, tag, b) ==
    IF b.err # "none" THEN b
    ELSE [b EXCEPT !.nodes = Append(@, [path |-> Append(parent, tag),
                                         text |-> PyNone])]

\* _insert_text_node(tag, text, target): TypeError unless text is a string
_insert_text_node(tag, text, parent, b) ==
    IF b.err # "none" THEN b
    ELSE IF ~IsBasestring(text) THEN [b EXCEPT !.err = "TypeError"]
    ELSE [b EXCEPT !.nodes = Append(@, [path |-> Append(parent, tag),
                                         text |-> text])]

\* the nodes of one NAME/VALUE child per key of the dictionary
RECURSIVE ColumnNodes(_, _, _)
ColumnNodes(parent, tag, k) ==
    IF k = 0 THEN <<>>
    ELSE ColumnNodes(parent, tag, k - 1) \o
         << [path |-> Append(parent, tag), text |-> PyNone],
            [path |-> parent \o <<tag, "NAME">>,
             text |-> "key" \o ToString(k)],
            [path |-> parent \o <<tag, "VALUE">>,
             text |-> "value" \o ToString(k)] >>

\* _create_child_element(parent, tag, dict_columns)
_create_child_element(parent, tag, dict_columns, b) ==
    IF b.err # "none" THEN b
    ELSE IF ~IsDict(dict_columns) THEN [b EXCEPT !.err = "TypeError"]
    ELSE [b EXCEPT !.nodes = @ \o ColumnNodes(parent, tag, dict_columns.n)]

\* raise <err> at this point of the method
Raise(err, b) == IF b.err # "none" THEN b ELSE [b EXCEPT !.err = err]

\* `if columns: self._create_child_element(action_node, 'COLUMN', columns)`
AddColumns(columns, b) ==
    IF Truthy(columns)
    THEN _create_child_element(<<>>, "COLUMN", columns, b)
    ELSE b

HasNode(nodes, tag) == \E i \in DOMAIN nodes : nodes[i].path = <<tag>>
NodeText(nodes, tag) ==
    nodes[CHOOSE i \in DOMAIN nodes : nodes[i].path = <<tag>>].text

(* --------------------- the session and _request ------------------------ *)
BaseUrl == "https://engage/XMLAPI"

\* faulty variant, for sensitivity: a _check_session that never raises
_check_session_never_raises(sid) == TRUE

\* _check_session: TRUE when it returns, FALSE when it raises
_check_session(sid) == TruthyStr(sid)

\* the URL _request posts to (lines 168, 178-181)
RequestUrl(auth, sid) ==
    IF auth /\ TruthyStr(sid)
    THEN BaseUrl \o ";jsessionid=" \o sid
    ELSE BaseUrl

\* faulty variant, for sensitivity: a _request that checks the session before it serialises data
_request_check_first(auth, sid) ==
    IF auth /\ ~TruthyStr(sid)
    THEN [serialized |-> FALSE, raised |-> TRUE, posted |-> FALSE,
          url |-> Absent]
    ELSE [serialized |-> TRUE, raised |-> FALSE, posted |-> TRUE,
          url |-> RequestUrl(auth, sid)]

\* _request up to the POST: data is serialised first, then the session is
\* checked, then the URL is made and the POST issued.
_request(auth, sid) ==
    IF auth /\ ~_check_session(sid)
    THEN [serialized |-> TRUE, raised |-> TRUE, posted |-> FALSE,
          url |-> Absent]
    ELSE [serialized |-> TRUE, raised |-> FALSE, posted |-> TRUE,
          url |-> RequestUrl(auth, sid)]

\* faulty variant, for sensitivity: a _request that posts again when the
\* POST failed
_request_retrying(r, n) ==
    [raised |-> r.transport # "ok",
     posts |-> IF r.transport # "ok" THEN n + 1 ELSE n]

\* _request from the POST on, r being how the POST ended and n the number
\* of POSTs the call has issued: post() raises on a network failure,
\* raise_for_status() on a non-2xx status, else the response is returned.
\* Nothing is posted again.
_request_response(r, n) ==
    [raised |-> r.transport # "ok", posts |-> n]

(* ------------------- the requests of the operations -------------------- *)
\* Each Build* is the part of the method before self._request(root): the
\* envelope, with err set when the method raised while building it.
ColumnValues == {NoneValue, [t |-> "dict", n |-> MaxDictSize]}

BuildLogin(a) ==
    _insert_text_node("PASSWORD", a.password, <<>>,
      _insert_text_node("USERNAME", a.username, <<>>, _envelope("Login")))

BuildLogout(a) == _envelope("Logout")

BuildAddRecipient(a) ==
    LET b1 == _insert_text_node("CREATED_FROM", a.created_from, <<>>,
                _insert_text_node("LIST_ID", a.list_id, <<>>,
                  _envelope("AddRecipient")))
        b2 == IF a.update_if_found
              THEN _insert_text_node("UPDATE_IF_FOUND", "true", <<>>, b1)
              ELSE b1
        b3 == IF a.sync_fields = AbsentValue THEN b2
              ELSE IF ~IsDict(a.sync_fields) THEN Raise("TypeError", b2)
              ELSE _create_child_element(<<"SYNC_FIELDS">>, "SYNC_FIELD",
                     a.sync_fields, SubElement(<<>>, "SYNC_FIELDS", b2))
    IN  AddColumns(a.columns, b3)

BuildRemoveRecipient(a) ==
    AddColumns(a.columns,
      _insert_text_node("EMAIL", a.email, <<>>,
        _insert_text_node("LIST_ID", a.list_id, <<>>,
          _envelope("RemoveRecipient"))))

\* faulty variant, for sensitivity: the triple is sent whenever it is complete
OptOutIdentifyBoth(a, b) ==
    LET e == IF TruthyStr(a.email)
             THEN _insert_text_node("EMAIL", a.email, <<>>, b)
             ELSE b
    IN  IF TruthyStr(a.mailing_id) /\ TruthyStr(a.recipient_id)
           /\ TruthyStr(a.job_id)
        THEN _insert_text_node("JOB_ID", a.job_id, <<>>,
               _insert_text_node("RECIPIENT_ID", a.recipient_id, <<>>,
                 _insert_text_node("MAILING_ID", a.mailing_id, <<>>, e)))
        ELSE IF TruthyStr(a.email) THEN e ELSE Raise("ValueError", b)

\* lines 345-371: the recipient is named by EMAIL, else by the triple
OptOutIdentify(a, b) ==
    IF TruthyStr(a.email)
    THEN _insert_text_node("EMAIL", a.email, <<>>, b)
    ELSE IF TruthyStr(a.mailing_id) /\ TruthyStr(a.recipient_id)
            /\ TruthyStr(a.job_id)
         THEN _insert_text_node("JOB_ID", a.job_id, <<>>,
                _insert_text_node("RECIPIENT_ID", a.recipient_id, <<>>,
                  _insert_text_node("MAILING_ID", a.mailing_id, <<>>, b)))
         ELSE Raise("ValueError", b)

BuildOptOutRecipient(a) ==
    AddColumns(a.columns,
      OptOutIdentify(a,
        _insert_text_node("LIST_ID", a.list_id, <<>>,
          _envelope("OptOutRecipient"))))

BuildCreateContactList(a) ==
    _insert_text_node("VISIBILITY", a.visibility, <<>>,
      _insert_text_node("CONTACT_LIST_NAME", a.contact_list_name, <<>>,
        _insert_text_node("DATABASE_ID", a.database_id, <<>>,
          _envelope("CreateContactList"))))

BuildAddContactToContactList(a) ==
    LET b1 == _insert_text_node("CONTACT_LIST_ID", a.contact_list_id, <<>>,
                _envelope("AddContactToContactList"))
        b2 == IF TruthyStr(a.contact_id)
              THEN _insert_text_node("CONTACT_ID", a.contact_id, <<>>, b1)
              ELSE b1
    IN  IF ~TruthyStr(a.contact_id) /\ Truthy(a.columns)
        THEN _create_child_element(<<>>, "COLUMN", a.columns, b2)
        ELSE b2

BuildSendMailing(a) ==
    AddColumns(a.columns,
      _insert_text_node("RecipientEmail", a.recipient_email, <<>>,
        _insert_text_node("MailingId", a.mailing_id, <<>>,
          _envelope("SendMailing"))))

SendTimeOptimizations == {"NONE", "SEND_24HRS", "SEND_WEEK"}

\* faulty variant, for sensitivity: send_time_optimization sent without the membership test
ScheduleStoUnchecked(a, b) ==
    IF a.send_time_optimization = Absent THEN b
    ELSE _insert_text_node("SEND_TIME_OPTIMIZATION",
                           a.send_time_optimization, <<>>, b)

\* lines 536-543
ScheduleSto(a, b) ==
    IF a.send_time_optimization = Absent THEN b
    ELSE IF a.send_time_optimization \notin SendTimeOptimizations
         THEN Raise("ValueError", b)
         ELSE _insert_text_node("SEND_TIME_OPTIMIZATION",
                                a.send_time_optimization, <<>>, b)

\* zero-padded two-digit field of strftime
Pad2(n) == IF n < 10 THEN "0" \o ToString(n) ELSE ToString(n)

\* scheduled.strftime('%m-%d-%Y %H:%M:%S %p'): %H is the hour 00..23,
\* %p is AM before noon and PM from noon on
FormatScheduled(v) ==
    "01-02-2014 " \o Pad2(v.n) \o ":05:00 "
                  \o (IF v.n < 12 THEN "AM" ELSE "PM")

\* lines 555-560
ScheduleScheduled(a, b) ==
    IF ~Truthy(a.scheduled) THEN b
    ELSE IF ~IsDatetime(a.scheduled) THEN Raise("TypeError", b)
         ELSE _insert_text_node("SCHEDULED", FormatScheduled(a.scheduled),
                                <<>>, b)

\* lines 563-570
ScheduleSubstitutions(a, b) ==
    IF ~Truthy(a.substitutions) THEN b
    ELSE IF ~IsDict(a.substitutions) THEN Raise("TypeError", b)
         ELSE _create_child_element(<<"SUBSTITUTIONS">>, "SUBSTITUTION",
                a.substitutions, SubElement(<<>>, "SUBSTITUTIONS", b))

BuildScheduleMailing(a) ==
    LET b1 == _insert_text_node("VISIBILITY", a.visibility, <<>>,
                _insert_text_node("MAILING_NAME", a.mailing_name, <<>>,
                  _insert_text_node("LIST_ID", a.list_id, <<>>,
                    _insert_text_node("TEMPLATE_ID", a.template_id, <<>>,
                      _envelope("ScheduleMailing")))))
    IN  ScheduleSubstitutions(a, ScheduleScheduled(a, ScheduleSto(a, b1)))

(* ------------------ the operations after the response ------------------ *)
\* Each Finish* is the part of the method after self._request returned:
\* [outcome, ret, sid, cls], sid being the session token the method leaves.
\* ret holds the members of the tuple returned: success, the id (where the
\* operation returns one) and error (where it returns one); login and
\* logout return success alone.
NoErrorMember == [kind |-> "unset", code |-> Unset, message |-> Unset]
NoReturn == [success |-> FALSE, id |-> Unset, error |-> NoErrorMember]

\* the (success, error) a method holds once _is_successful returned;
\* done is FALSE while the method has not called it
NotClassified ==
    [done |-> FALSE, raised |-> FALSE, success |-> FALSE, error |-> NoError]

Classified(c) ==
    [done |-> TRUE, raised |-> c.raised, success |-> c.success,
     error |-> c.error]

\* read is TRUE when the method went on to read its payload (SESSIONID,
\* RecipientId, CONTACT_LIST_ID, MAILING_ID) from the response
Raised(err, sid, c) ==
    [outcome |-> err, ret |-> NoReturn, sid |-> sid, cls |-> c,
     read |-> FALSE]
Returned(ret, sid, c) ==
    [outcome |-> "returned", ret |-> ret, sid |-> sid, cls |-> c,
     read |-> FALSE]

\* the ending f of a method that ran its xpath for the payload on the way
ReadPayload(f) == [f EXCEPT !.read = TRUE]

\* the truth of error in `if error:`: a tuple of two members is true
TruthyError(e) == e.kind = "tuple"

\* `if x: x = x[0]` on the list an xpath returned: its first member, or the
\* empty list itself
FirstOrList(x) == IF x # <<>> THEN x[1] ELSE EmptyList

\* _get_session_id: [raised, value]; value is the .text of the node
_get_session_id(resp) ==
    LET s == XPathSessionNode(resp)
    IN  IF s = <<>>
        THEN [raised |-> TRUE, value |-> PyNone]
        ELSE [raised |-> FALSE, value |-> s[1]]

FinishLogin(resp, sid) ==
    LET c == _is_successful(resp)
        g == _get_session_id(resp)
        r == [success |-> c.success, id |-> Unset, error |-> NoErrorMember]
    IN  IF c.raised THEN Raised("DataFormatError", sid, Classified(c))
        ELSE IF TruthyError(c.error)
        THEN Raised("ApiError", sid, Classified(c))
        ELSE IF c.success
             THEN IF g.raised
                  THEN ReadPayload(
                         Raised("DataFormatError", sid, Classified(c)))
                  ELSE ReadPayload(Returned(r, g.value, Classified(c)))
             ELSE Returned(r, sid, Classified(c))

FinishLogout(resp, sid) ==
    LET c == _is_successful(resp)
        r == [success |-> c.success, id |-> Unset, error |-> NoErrorMember]
    IN  IF c.raised THEN Raised("DataFormatError", sid, Classified(c))
        ELSE IF c.success THEN Returned(r, PyNone, Classified(c))
        ELSE Returned(r, sid, Classified(c))

\* faulty variant, for sensitivity: RecipientId read before _is_successful
FinishAddRecipientReadFirst(resp, sid) ==
    LET c == _is_successful(resp)
    IN  IF c.raised
        THEN ReadPayload(Raised("DataFormatError", sid, Classified(c)))
        ELSE ReadPayload(
               Returned([success |-> c.success,
                         id |-> FirstOrList(XPathPayloadText(resp)),
                         error |-> c.error], sid, Classified(c)))

FinishAddRecipient(resp, sid) ==
    LET c == _is_successful(resp)
    IN  IF c.raised THEN Raised("DataFormatError", sid, Classified(c))
        ELSE ReadPayload(
               Returned([success |-> c.success,
                         id |-> FirstOrList(XPathPayloadText(resp)),
                         error |-> c.error], sid, Classified(c)))

\* faulty variant, for sensitivity: an ending that raises on an API-reported failure
FinishPlainRaising(resp, sid) ==
    LET c == _is_successful(resp)
    IN  IF c.raised THEN Raised("DataFormatError", sid, Classified(c))
        ELSE IF TruthyError(c.error)
        THEN Raised("ApiError", sid, Classified(c))
        ELSE Returned([success |-> c.success, id |-> Unset,
                       error |-> c.error], sid, Classified(c))

\* remove_recipient, opt_out_recipient, add_contact_to_contact_list and
\* send_mailing end alike: return (success, error)
FinishPlain(resp, sid) ==
    LET c == _is_successful(resp)
    IN  IF c.raised THEN Raised("DataFormatError", sid, Classified(c))
        ELSE Returned([success |-> c.success, id |-> Unset,
                       error |-> c.error], sid, Classified(c))

FinishCreateContactList(resp, sid) ==
    LET c == _is_successful(resp)
    IN  IF c.raised THEN Raised("DataFormatError", sid, Classified(c))
        ELSE IF c.success
        THEN ReadPayload(
               Returned([success |-> c.success,
                         id |-> FirstOrList(XPathPayloadText(resp)),
                         error |-> c.error], sid, Classified(c)))
        ELSE Returned([success |-> c.success, id |-> PyNone,
                       error |-> c.error], sid, Classified(c))

FinishScheduleMailing(resp, sid) ==
    LET c == _is_successful(resp)
    IN  IF c.raised THEN Raised("DataFormatError", sid, Classified(c))
        ELSE IF TruthyError(c.error)
        THEN Raised("ApiError", sid, Classified(c))
        ELSE ReadPayload(
               Returned([success |-> c.success,
                         id |-> FirstOrList(XPathPayloadText(resp)),
                         error |-> NoErrorMember], sid, Classified(c)))

(* ------------------------------ arguments ------------------------------ *)
\* Identifiers are passed as strings (str(x) of a string is the string).
LoginArgs == [username : {"user"}, password : {"secret"}]

LogoutArgs == {[none |-> TRUE]}

AddRecipientArgs ==
    [ list_id : {"1"}, created_from : {"1"}, update_if_found : BOOLEAN,
      sync_fields : {AbsentValue, NoneValue} \cup DictValues,
      columns : ColumnValues ]

RemoveRecipientArgs ==
    [ list_id : {"1"}, email : {"a@b.c", PyNone}, columns : ColumnValues ]

OptOutRecipientArgs ==
    [ list_id : {"1"}, email : {"", "a@b.c"},
      mailing_id : {PyNone, "7"}, recipient_id : {PyNone, "8"},
      job_id : {PyNone, "9"}, columns : ColumnValues ]

CreateContactListArgs ==
    [ database_id : {"1"}, contact_list_name : {"friends"},
      visibility : {"0", "1"} ]

AddContactToContactListArgs ==
    [ contact_list_id : {"3"}, contact_id : {"", "5"},
      columns : ColumnValues ]

SendMailingArgs ==
    [ mailing_id : {"7"}, recipient_email : {"a@b.c"},
      columns : ColumnValues ]

\* every combination of the three validated parameters, with one accepted
\* send_time_optimization and one datetime; then each accepted
\* send_time_optimization and each hour of Hours with the other two
\* parameters left out
ScheduleMailingArgs ==
    [ template_id : {"2"}, list_id : {"1"}, mailing_name : {"news"},
      visibility : {"1"},
      send_time_optimization : {Absent, "SEND_24HRS", "BOGUS"},
      scheduled : {NoneValue, DatetimeValue} \cup IntValues,
      substitutions : ColumnValues \cup ListValues ]
    \cup
    [ template_id : {"2"}, list_id : {"1"}, mailing_name : {"news"},
      visibility : {"1"},
      send_time_optimization : SendTimeOptimizations,
      scheduled : {NoneValue},
      substitutions : {NoneValue} ]
    \cup
    [ template_id : {"2"}, list_id : {"1"}, mailing_name : {"news"},
      visibility : {"1"},
      send_time_optimization : {Absent},
      scheduled : DatetimeValues,
      substitutions : {NoneValue} ]

(* ------------------------------- state --------------------------------- *)
VARIABLES
    sessionId,  \* self._sessionId
    pc,         \* "idle", or "waiting" while the POST of a call is in flight
    call,       \* the current (or last) call: operation, arguments, request
    post,       \* the POST the call issued, if any
    resp,       \* the response the call got, if any
    cls,        \* the (success, error) _is_successful gave the call
    outcome,    \* how the call ended: "returned" or the exception raised
    ret,        \* the values the call returned
    extracted,  \* whether the call read its payload from the response
    posts       \* the number of POSTs the call has issued

vars ==
    <<sessionId, pc, call, post, resp, cls, outcome, ret, extracted, posts>>

NoPost == [issued |-> FALSE, url |-> Absent]

Init ==
    /\ sessionId = PyNone
    /\ pc = "idle"
    /\ call = [op |-> "none", args |-> [none |-> TRUE], nodes |-> <<>>,
               serialized |-> FALSE, before |-> PyNone]
    /\ post = NoPost
    /\ resp = NoResponse
    /\ cls = NotClassified
    /\ outcome = "none"
    /\ ret = NoReturn
    /\ extracted = FALSE
    /\ posts = 0

\* The call of operation o with arguments a, b being the envelope the method
\* built: up to the exception raised before the POST, or up to the POST.
Start(o, a, b, auth) ==
    LET q == _request(auth, sessionId)
    IN  /\ call' = [op |-> o, args |-> a, nodes |-> b.nodes,
                    serialized |-> (b.err = "none" /\ q.serialized),
                    before |-> sessionId]
        /\ resp' = NoResponse
        /\ cls' = NotClassified
        /\ ret' = NoReturn
        /\ extracted' = FALSE
        /\ posts' = IF b.err = "none" /\ q.posted THEN 1 ELSE 0
        /\ UNCHANGED sessionId
        /\ IF b.err # "none"
           THEN post' = NoPost /\ outcome' = b.err /\ pc' = "idle"
           ELSE IF q.raised
           THEN post' = NoPost /\ outcome' = "AuthRequired" /\ pc' = "idle"
           ELSE /\ post' = [issued |-> q.posted, url |-> q.url]
                /\ outcome' = "pending"
                /\ pc' = "waiting"

\* The rest of the call in flight once the POST ended: post() or
\* raise_for_status() raised, or the method goes on with the response.
\* r is the response and m what the method does with a 2xx response.
Finish(r, m) ==
    LET q == _request_response(r, posts)
        f == IF q.raised
             THEN Raised("TransportError", sessionId, NotClassified)
             ELSE m
    IN  /\ resp' = r
        /\ posts' = q.posts
        /\ cls' = f.cls
        /\ outcome' = f.outcome
        /\ ret' = f.ret
        /\ extracted' = f.read
        /\ sessionId' = f.sid
        /\ pc' = "idle"
        /\ UNCHANGED <<call, post>>

login ==
    \E a \in LoginArgs :
        /\ pc = "idle"
        /\ Start("login", a, BuildLogin(a), FALSE)

loginResponse ==
    \E r \in Responses :
        /\ pc = "waiting" /\ call.op = "login"
        /\ Finish(r, FinishLogin(r, sessionId))

logout ==
    \E a \in LogoutArgs :
        /\ pc = "idle"
        /\ Start("logout", a, BuildLogout(a), TRUE)

logoutResponse ==
    \E r \in Responses :
        /\ pc = "waiting" /\ call.op = "logout"
        /\ Finish(r, FinishLogout(r, sessionId))

add_recipient ==
    \E a \in AddRecipientArgs :
        /\ pc = "idle"
        /\ Start("add_recipient", a, BuildAddRecipient(a), TRUE)

add_recipientResponse ==
    \E r \in Responses :
        /\ pc = "waiting" /\ call.op = "add_recipient"
        /\ Finish(r, FinishAddRecipient(r, sessionId))

remove_recipient ==
    \E a \in RemoveRecipientArgs :
        /\ pc = "idle"
        /\ Start("remove_recipient", a, BuildRemoveRecipient(a), TRUE)

remove_recipientResponse ==
    \E r \in Responses :
        /\ pc = "waiting" /\ call.op = "remove_recipient"
        /\ Finish(r, FinishPlain(r, sessionId))

opt_out_recipient ==
    \E a \in OptOutRecipientArgs :
        /\ pc = "idle"
        /\ Start("opt_out_recipient", a, BuildOptOutRecipient(a), TRUE)

opt_out_recipientResponse ==
    \E r \in Responses :
        /\ pc = "waiting" /\ call.op = "opt_out_recipient"
        /\ Finish(r, FinishPlain(r, sessionId))

create_contact_list ==
    \E a \in CreateContactListArgs :
        /\ pc = "idle"
        /\ Start("create_contact_list", a, BuildCreateContactList(a), TRUE)

create_contact_listResponse ==
    \E r \in Responses :
        /\ pc = "waiting" /\ call.op = "create_contact_list"
        /\ Finish(r, FinishCreateContactList(r, sessionId))

add_contact_to_contact_list ==
    \E a \in AddContactToContactListArgs :
        /\ pc = "idle"
        /\ Start("add_contact_to_contact_list", a,
                 BuildAddContactToContactList(a), TRUE)

add_contact_to_contact_listResponse ==
    \E r \in Responses :
        /\ pc = "waiting" /\ call.op = "add_contact_to_contact_list"
        /\ Finish(r, FinishPlain(r, sessionId))

send_mailing ==
    \E a \in SendMailingArgs :
        /\ pc = "idle"
        /\ Start("send_mailing", a, BuildSendMailing(a), TRUE)

send_mailingResponse ==
    \E r \in Responses :
        /\ pc = "waiting" /\ call.op = "send_mailing"
        /\ Finish(r, FinishPlain(r, sessionId))

schedule_mailing ==
    \E a \in ScheduleMailingArgs :
        /\ pc = "idle"
        /\ Start("schedule_mailing", a, BuildScheduleMailing(a), TRUE)

schedule_mailingResponse ==
    \E r \in Responses :
        /\ pc = "waiting" /\ call.op = "schedule_mailing"
        /\ Finish(r, FinishScheduleMailing(r, sessionId))

Next ==
    \/ login \/ loginResponse
    \/ logout \/ logoutResponse
    \/ opt_out_recipient \/ opt_out_recipientResponse
    \/ add_recipient \/ add_recipientResponse
    \/ remove_recipient \/ remove_recipientResponse
    \/ create_contact_list \/ create_contact_listResponse
    \/ add_contact_to_contact_list \/ add_contact_to_contact_listResponse
    \/ send_mailing \/ send_mailingResponse
    \/ schedule_mailing \/ schedule_mailingResponse

Spec == Init /\ [][Next]_vars

TypeOK ==
    /\ sessionId \in {PyNone} \cup Tokens
    /\ pc \in {"idle", "waiting"}
    /\ post.issued \in BOOLEAN
    /\ extracted \in BOOLEAN
    /\ posts \in Nat

(* ------------------------ vocabulary of the claims --------------------- *)
\* the last call has ended (returned or raised)
Ended == pc = "idle" /\ call.op # "none"

\* the operations that need a session
Authenticated == call.op \notin {"none", "login"}

\* the token the client held when the call was made (and when it posted)
TokenAtCall == call.before
HadToken == TokenAtCall # PyNone /\ TokenAtCall # ""

ParameterErrors == {"ValueError", "TypeError"}

\* two texts equal up to the case of their letters, letter by letter
SameLetter(c, d) ==
    \/ c = d
    \/ \E i \in DOMAIN UpperChars :
          {c, d} = {UpperChars[i], LowerChars[i]}

SameIgnoringCase(s, t) ==
    /\ Len(s) = Len(t)
    /\ \A i \in 1..Len(s) : SameLetter(s[i], t[i])

\* the response has a SUCCESS text that says true or success
SaysSuccess ==
    \/ SameIgnoringCase(resp.success, <<"t","r","u","e">>)
    \/ SameIgnoringCase(resp.success, <<"s","u","c","c","e","s","s">>)

\* a 2xx response came back
GotResponse == Ended /\ resp.transport = "ok"

\* the response is a classified failure: SUCCESS text present and not
\* true/success, FaultString present
ClassifiedFailure ==
    GotResponse /\ resp.success # <<>> /\ ~SaysSuccess /\ resp.fault # Absent

\* the response lacks a node classification requires
Malformed ==
    GotResponse /\ (resp.success = <<>> \/ (~SaysSuccess /\ resp.fault = Absent))

(* -------------------------------- C1 ----------------------------------- *)
\* every POST of an operation other than login is made with a non-empty
\* token and goes to the base URL followed by ";jsessionid=" and that token
PostCarriesToken ==
    (Authenticated /\ post.issued) =>
        /\ HadToken
        /\ post.url = BaseUrl \o ";jsessionid=" \o TokenAtCall

\* C1 as stated: every POST of an operation other than login carries the
\* current non-empty token in the URL, and without a token such a call
\* raises the authentication-required error and issues no POST.
C1_Original ==
    /\ PostCarriesToken
    /\ (Authenticated /\ ~HadToken) =>
           (~post.issued /\ pc = "idle" /\ outcome = "AuthRequired")

\* C1 (amended): every POST of an operation other than login carries the
\* current non-empty token in the URL; without a token such a call issues no
\* POST and raises the authentication-required error, or, when building its
\* request raised first, the parameter-validation error of that.
C1_PostNeedsSession ==
    /\ PostCarriesToken
    /\ (Authenticated /\ ~HadToken) =>
           /\ ~post.issued
           /\ pc = "idle"
           /\ outcome \in {"AuthRequired"} \cup ParameterErrors
           /\ (outcome = "AuthRequired") = call.serialized

C1_Witness ==
    /\ call.op = "send_mailing"
    /\ post.issued
    /\ TokenAtCall = "tok2"
    /\ post.url = "https://engage/XMLAPI;jsessionid=tok2"

(* -------------------------------- C2 ----------------------------------- *)
\* the last call was a login (a logout) that got a response classified as
\* success
LoginSucceeded ==
    call.op = "login" /\ GotResponse /\ resp.success # <<>> /\ SaysSuccess
LogoutSucceeded ==
    call.op = "logout" /\ GotResponse /\ resp.success # <<>> /\ SaysSuccess

\* C2: the token is absent at construction; a call changes it to the
\* SESSIONID of the response only if it is a login classified as success,
\* changes it to absent only if it is a logout classified as success, and
\* leaves it unchanged otherwise.
C2_TokenLifecycle ==
    /\ (call.op = "none") => sessionId = PyNone
    /\ (call.op # "none" /\ pc = "waiting") => sessionId = TokenAtCall
    /\ (Ended /\ sessionId # TokenAtCall) =>
           \/ LoginSucceeded /\ sessionId = resp.payload
           \/ LogoutSucceeded /\ sessionId = PyNone
    /\ (Ended /\ sessionId # TokenAtCall /\ sessionId = PyNone) =>
           LogoutSucceeded

OptOutWithoutIdentity ==
    /\ call.op = "opt_out_recipient"
    /\ call.args.email = ""
    /\ PyNone \in {call.args.mailing_id, call.args.recipient_id,
                   call.args.job_id}
ScheduleWithBogusSto ==
    /\ call.op = "schedule_mailing"
    /\ call.args.send_time_optimization = "BOGUS"

\* C4 as stated: without a token an authenticated operation raises the
\* authentication-required error whatever its arguments are.
C4_Original ==
    (Ended /\ Authenticated /\ ~HadToken) => outcome = "AuthRequired"

\* C4 (amended): without a token an authenticated operation issues no POST,
\* but the session is checked after the request was built and serialised:
\* a call whose arguments fail validation raises the parameter-validation
\* error (the two examples raise ValueError), and only a call whose request
\* was built raises the authentication-required error.
C4_ValidationBeforeSessionCheck ==
    (Ended /\ Authenticated /\ ~HadToken) =>
        /\ ~post.issued
        /\ (OptOutWithoutIdentity \/ ScheduleWithBogusSto) =>
               outcome = "ValueError"
        /\ (outcome = "AuthRequired") => call.serialized
        /\ (outcome # "AuthRequired") =>
               (outcome \in ParameterErrors /\ ~call.serialized)

C4_Witness ==
    /\ Ended /\ ~HadToken
    /\ OptOutWithoutIdentity
    /\ outcome = "ValueError"
    /\ ~post.issued

(* -------------------------------- C5 ----------------------------------- *)
\* C5: when the response has a SUCCESS text, _is_successful gives
\* success = true if and only if that text is 'true' or 'success' up to the
\* case of its letters.
C5_SuccessIffTrueOrSuccess ==
    (GotResponse /\ cls.done /\ resp.success # <<>>) =>
        ((~cls.raised /\ cls.success) <=> SaysSuccess)

C5_Witness ==
    /\ GotResponse /\ cls.done /\ cls.success
    /\ resp.success = <<"S","U","C","C","E","S","S">>

(* -------------------------------- C6 ----------------------------------- *)
\* C6: a response without SUCCESS text, or classified as failure without a
\* FaultString, makes _is_successful raise: the call of any operation ends
\* with the data-format error, returns nothing and leaves the token as it
\* was.
C6_MalformedResponseRaises ==
    Malformed =>
        /\ cls.done /\ cls.raised
        /\ outcome = "DataFormatError"
        /\ ret = NoReturn
        /\ sessionId = TokenAtCall

C6_Witness ==
    /\ Malformed
    /\ call.op = "logout"
    /\ resp.success = <<"f","a","l","s","e">>
    /\ resp.fault = Absent
    /\ outcome = "DataFormatError"
    /\ sessionId = "tok1"

C8_AbsentFieldIsNone ==
    /\ (GotResponse /\ cls.done /\ ~cls.raised /\ ~cls.success
          /\ resp.errorid = Absent) => cls.error.code = PyNone
    /\ (GotResponse /\ outcome = "returned" /\ resp.payload = Absent) =>
          /\ call.op = "add_recipient" => ret.id = PyNone
          /\ (call.op = "create_contact_list" /\ cls.success) =>
                 ret.id = PyNone
          /\ call.op = "schedule_mailing" => ret.id = PyNone

(* -------------------------------- C9 ----------------------------------- *)
\* the arguments of the call fail the validation the method makes
StoInvalid ==
    /\ call.op = "schedule_mailing"
    /\ call.args.send_time_optimization
          \notin {Absent, "NONE", "SEND_24HRS", "SEND_WEEK"}
\* a substitutions (scheduled) that is given and is no mapping (datetime)
SubstitutionsNotMapping ==
    /\ call.op = "schedule_mailing"
    /\ call.args.substitutions.t \notin {"NoneType", "dict"}
ScheduledNotDatetime ==
    /\ call.op = "schedule_mailing"
    /\ call.args.scheduled.t \notin {"NoneType", "datetime"}
SyncFieldsNotMapping ==
    /\ call.op = "add_recipient"
    /\ call.args.sync_fields.t \notin {"absent", "dict"}
\* the same, for a value the method does not take for absent
SubstitutionsNotMappingTruthy ==
    SubstitutionsNotMapping /\ call.args.substitutions.n # 0
ScheduledNotDatetimeTruthy ==
    ScheduledNotDatetime /\ call.args.scheduled.n # 0

NothingSent ==
    /\ pc = "idle"
    /\ ~post.issued
    /\ outcome \in ParameterErrors
    /\ sessionId = TokenAtCall

\* C9 as stated: with a session, each of the listed invalid calls raises
\* the parameter-validation error, posts nothing and keeps the token.
C9_Original ==
    (call.op # "none" /\ HadToken
       /\ (OptOutWithoutIdentity \/ StoInvalid \/ SubstitutionsNotMapping
             \/ ScheduledNotDatetime \/ SyncFieldsNotMapping))
    => NothingSent

\* C9 (amended): the same, for a substitutions or scheduled value that is
\* truthy; an empty or zero one (such as [] or 0) is taken for absent.
C9_InvalidArgumentsSendNothing ==
    /\ (call.op # "none" /\ HadToken
          /\ (OptOutWithoutIdentity \/ StoInvalid \/ SubstitutionsNotMappingTruthy
                \/ ScheduledNotDatetimeTruthy \/ SyncFieldsNotMapping))
       => NothingSent
    /\ (HadToken /\ OptOutWithoutIdentity) => outcome = "ValueError"
    /\ (HadToken /\ StoInvalid) => outcome = "ValueError"
    /\ (HadToken /\ SyncFieldsNotMapping) => outcome = "TypeError"
    /\ (HadToken /\ ~StoInvalid
          /\ (SubstitutionsNotMappingTruthy \/ ScheduledNotDatetimeTruthy))
       => outcome = "TypeError"

C9_Witness ==
    /\ HadToken
    /\ StoInvalid
    /\ outcome = "ValueError"
    /\ ~post.issued
    /\ sessionId = TokenAtCall

(* -------------------------------- C10 ---------------------------------- *)
TripleComplete ==
    PyNone \notin {call.args.mailing_id, call.args.recipient_id,
                   call.args.job_id}
EmailGiven == call.args.email # ""

SentByEmail == HasNode(call.nodes, "EMAIL")
SentByTriple ==
    /\ HasNode(call.nodes, "MAILING_ID")
    /\ HasNode(call.nodes, "RECIPIENT_ID")
    /\ HasNode(call.nodes, "JOB_ID")
SentAnyOfTriple ==
    \/ HasNode(call.nodes, "MAILING_ID")
    \/ HasNode(call.nodes, "RECIPIENT_ID")
    \/ HasNode(call.nodes, "JOB_ID")

\* every request sent names the recipient in exactly one of the two ways
OneIdentity ==
    (call.op = "opt_out_recipient" /\ post.issued) =>
        \/ SentByEmail /\ ~SentAnyOfTriple
        \/ SentByTriple /\ ~SentByEmail

\* C10 as stated: a call giving neither the email nor the complete triple,
\* and a call giving both, is not sent; a request sent names the recipient
\* in exactly one way.
C10_Original ==
    /\ (call.op = "opt_out_recipient"
          /\ (EmailGiven <=> TripleComplete)) => ~post.issued
    /\ OneIdentity

\* C10 (amended): a call giving neither is not sent (ValueError); a call
\* giving both is sent, when there is a session, naming the recipient by
\* EMAIL alone; a request sent names the recipient in exactly one way.
C10_EmailTakesPrecedence ==
    /\ (call.op = "opt_out_recipient" /\ ~EmailGiven /\ ~TripleComplete) =>
          (~post.issued /\ outcome = "ValueError")
    /\ (call.op = "opt_out_recipient" /\ EmailGiven /\ TripleComplete
          /\ HadToken) =>
          (post.issued /\ SentByEmail /\ ~SentAnyOfTriple)
    /\ OneIdentity

C10_Witness ==
    /\ call.op = "opt_out_recipient"
    /\ EmailGiven /\ TripleComplete
    /\ post.issued
    /\ NodeText(call.nodes, "EMAIL") = "a@b.c"

(* ------------------------------- C11 ----------------------------------- *)
\* the hour of a 12-hour clock: 12, 1, ..., 11, 12, 1, ..., 11
TwelveHour(h) == IF h % 12 = 0 THEN 12 ELSE h % 12

\* 'MM-DD-YYYY HH:MM:SS AM/PM' on a 12-hour clock, of the datetime v
TwelveHourText(v) ==
    "01-02-2014 " \o Pad2(TwelveHour(v.n)) \o ":05:00 "
                  \o (IF v.n < 12 THEN "AM" ELSE "PM")

ScheduleMailingSent == call.op = "schedule_mailing" /\ post.issued

\* C11: the SCHEDULED text of a schedule_mailing request is the datetime on
\* a 12-hour clock (hour field 01..12, AM for hours 0-11, PM for hours
\* 12-23), and no SCHEDULED node is sent when scheduled is absent.
C11_ScheduledTwelveHourClock ==
    ScheduleMailingSent =>
        /\ IsDatetime(call.args.scheduled) =>
              /\ HasNode(call.nodes, "SCHEDULED")
              /\ NodeText(call.nodes, "SCHEDULED")
                    = TwelveHourText(call.args.scheduled)
        /\ call.args.scheduled = NoneValue =>
              ~HasNode(call.nodes, "SCHEDULED")

(* ------------------------------- C12 ----------------------------------- *)
\* the operations that read a payload from the response
PayloadOperations ==
    {"login", "add_recipient", "create_contact_list", "schedule_mailing"}

\* _is_successful returned for the response of the call: it gave exactly
\* one of success and failure, as the SUCCESS text says
ClassifiedOnce ==
    /\ cls.done /\ ~cls.raised
    /\ resp.transport = "ok"
    /\ cls.success \in BOOLEAN
    /\ cls.success <=> SaysSuccess

\* the call returned a value taken from the response, or stored one
PayloadUsed ==
    \/ Ended /\ outcome = "returned" /\ ret.id \notin {Unset, PyNone}
    \/ Ended /\ call.op = "login" /\ outcome = "returned"
          /\ sessionId # call.before

\* C12: a payload (SESSIONID, RecipientId, CONTACT_LIST_ID, MAILING_ID) is
\* read only from a response _is_successful has classified as success or
\* as failure, never from one not yet classified or whose classification
\* raised the data-format error.
C12_ClassifiedBeforeExtraction ==
    /\ extracted => (ClassifiedOnce /\ call.op \in PayloadOperations)
    /\ PayloadUsed => extracted
    /\ (Ended /\ cls.raised) => (~extracted /\ outcome = "DataFormatError")
    /\ (Ended /\ ~cls.done) => ~extracted

C12_Witness ==
    /\ Ended /\ call.op = "add_recipient"
    /\ extracted /\ ClassifiedOnce /\ ~cls.success
    /\ ret.id \notin {Unset, PyNone, EmptyList}

(* ------------------------------- C13 ----------------------------------- *)
\* the POST of the call failed: network failure or non-2xx status
TransportFailed ==
    Ended /\ resp.transport \in {"network_failure", "http_error"}

\* C13: a call issues at most one POST; a transport error ends the call by
\* propagating that error, and a classified failure or a data-format error
\* ends it too, each with the one POST and no second one.
C13_AtMostOnePost ==
    /\ posts <= 1
    /\ post.issued <=> posts = 1
    /\ TransportFailed =>
          (outcome = "TransportError" /\ posts = 1 /\ ~cls.done
             /\ ~extracted /\ sessionId = call.before)
    /\ (ClassifiedFailure \/ Malformed) => posts = 1
    /\ (Ended /\ outcome \in {"ApiError", "DataFormatError"}) => posts = 1

C13_Witness ==
    /\ TransportFailed /\ call.op = "send_mailing"
    /\ resp.transport = "http_error"
    /\ outcome = "TransportError" /\ posts = 1

(* ------------------------------- C14 ----------------------------------- *)
\* login() returned True
LoginReturnedTrue ==
    Ended /\ call.op = "login" /\ outcome = "returned" /\ ret.success

\* login() got a success response that has no SESSIONID node
LoginSuccessWithoutSessionNode ==
    /\ Ended /\ call.op = "login" /\ resp.transport = "ok"
    /\ SaysSuccess /\ resp.payload = Absent

\* C14: whenever login() returned True the stored token is non-empty (the
\* next authenticated operation passes the session check), also when the
\* SESSIONID node of the response has no text; a success response with no
\* SESSIONID node raises the data-format error and True is not returned.
C14_LoginTrueStoresToken ==
    /\ LoginReturnedTrue => _check_session(sessionId)
    /\ LoginSuccessWithoutSessionNode =>
          (outcome = "DataFormatError" /\ ret = NoReturn)

=============================================================================
